---- MODULE Spec2Model ----
(***************************************************************************)
(* Snort MCP agent: the Streamlit dispatch loop (src/app.py), the decision *)
(* engine (src/backend/llm_service.py) and the operation host              *)
(* (src/backend/mcp_server.py).                                            *)
(*                                                                         *)
(* Python str values are TLA+ strings; TLC evaluates Len, Head, Tail,      *)
(* SubSeq and \o on them, so the str methods below are computed character  *)
(* by character.  Non-ASCII marks of the source's messages are written in  *)
(* ASCII: the check mark as [OK], the cross as [X], the warning as [!];    *)
(* the backquote of a code fence, which a TLA+ string cannot hold, as ~.   *)
(***************************************************************************)
EXTENDS Integers, Sequences, FiniteSets, TLC

VARIABLES
    \* ---- src/app.py: one script run per interaction ----
    pc,           \* position of the script run / session
    query,        \* st.chat_input value of this run ("" when none)
    tools,        \* the catalog bound by the sidebar block
    fetchFailed,  \* the sidebar's except branch ran (st.error shown)
    response,     \* value returned by get_agent_response
    tool_output,  \* text bound by the try/except around execute_tool
    rendered,     \* how the tool result was shown: table, error, json or raw
    history,      \* st.session_state.history
    fetchCalls,   \* agent.list_tools() calls of this run
    llmCalls,     \* get_agent_response calls of this run
    llmTools,     \* the catalog handed to get_agent_response
    execCalls,    \* agent.execute_tool() calls of this run
    \* ---- src/backend/mcp_server.py: the operation host ----
    opName,       \* operation last called
    opArgs,       \* its arguments
    opResult,     \* text it returned
    opPc,         \* "ready" | "returned" | "blocked"
    cmdLog,       \* external commands run by the last call, in order
    rulesFile,    \* lines appended to /etc/snort/rules/local.rules
    \* ---- parse_snort_rule as a pure function ----
    line,         \* input line
    parsed,       \* parse_snort_rule(line)
    reparsed,     \* parse_snort_rule(parsed.Raw)
    parsePc       \* "input" | "parsed" | "reparsed"

vars == <<pc, query, tools, fetchFailed, response, tool_output, rendered, history,
          fetchCalls, llmCalls, llmTools, execCalls,
          opName, opArgs, opResult, opPc, cmdLog, rulesFile,
          line, parsed, reparsed, parsePc>>

appVars == <<pc, query, tools, fetchFailed, response, tool_output, rendered, history,
             fetchCalls, llmCalls, llmTools, execCalls>>
hostVars == <<opName, opArgs, opResult, opPc, cmdLog, rulesFile>>
parseVars == <<line, parsed, reparsed, parsePc>>

(***************************************************************************)
(* Python str methods                                                      *)
(***************************************************************************)
Whitespace == {" ", "\t", "\n", "\r", "\f"}

\* the 1-based positions of the characters of s that are not whitespace
Inked(s) == {i \in 1..Len(s) : SubSeq(s, i, i) \notin Whitespace}

\* str.strip()
Strip(s) ==
    LET ink == Inked(s) IN
    IF ink = {} THEN ""
    ELSE SubSeq(s, CHOOSE i \in ink : \A j \in ink : i <= j,
                   CHOOSE i \in ink : \A j \in ink : i >= j)

\* str.startswith(p)
StartsWith(s, p) == Len(s) >= Len(p) /\ SubSeq(s, 1, Len(p)) = p

\* the 0-based offsets at which sub occurs in s
Occurrences(s, sub) ==
    {i \in 0..(Len(s) - Len(sub)) : SubSeq(s, i + 1, i + Len(sub)) = sub}

\* str.find(sub): the lowest 0-based index, or -1
Find(s, sub) ==
    LET hits == Occurrences(s, sub) IN
    IF hits = {} THEN -1 ELSE CHOOSE i \in hits : \A j \in hits : i <= j

\* str.rfind(sub): the highest 0-based index, or -1
RFind(s, sub) ==
    LET hits == Occurrences(s, sub) IN
    IF hits = {} THEN -1 ELSE CHOOSE i \in hits : \A j \in hits : i >= j

\* sub in s
Contains(s, sub) == Find(s, sub) >= 0

\* str.split(sep, maxsplit); maxsplit = -1 is no limit
RECURSIVE Split(_, _, _)
Split(s, sep, maxsplit) ==
    LET i == Find(s, sep) IN
    IF maxsplit = 0 \/ i = -1 THEN <<s>>
    ELSE <<SubSeq(s, 1, i)>>
         \o Split(SubSeq(s, i + Len(sep) + 1, Len(s)), sep, maxsplit - 1)

\* str.replace(old, new)
RECURSIVE Replace(_, _, _)
Replace(s, old, new) ==
    LET i == Find(s, old) IN
    IF i = -1 THEN s
    ELSE SubSeq(s, 1, i) \o new
         \o Replace(SubSeq(s, i + Len(old) + 1, Len(s)), old, new)

\* s[-n:]
LastChars(s, n) == IF Len(s) <= n THEN s ELSE SubSeq(s, Len(s) - n + 1, Len(s))

\* ", ".join(xs) and friends
RECURSIVE Join(_, _)
Join(xs, sep) ==
    IF xs = <<>> THEN ""
    ELSE IF Len(xs) = 1 THEN xs[1]
    ELSE xs[1] \o sep \o Join(Tail(xs), sep)

(***************************************************************************)
(* parse_snort_rule (src/backend/mcp_server.py)                            *)
(***************************************************************************)
\* Python's None / a returned dict, as an option: <<>> or <<record>>
None == <<>>
Some(r) == <<r>>

SplitLimit == 7

\* [p.strip() for p in inner.split(";") if p.strip()]
RECURSIVE StripNonEmpty(_)
StripNonEmpty(ps) ==
    IF ps = <<>> THEN <<>>
    ELSE (IF Strip(ps[1]) # "" THEN <<Strip(ps[1])>> ELSE <<>>)
         \o StripNonEmpty(Tail(ps))

\* the for loop filling the options dict, as the list of assignments made
RECURSIVE OptionPairs(_)
OptionPairs(ops) ==
    IF ops = <<>> THEN <<>>
    ELSE (IF Contains(ops[1], ":")
          THEN LET kv == Split(ops[1], ":", 1) IN
               <<[key |-> Strip(kv[1]),
                  val |-> Replace(Strip(kv[2]), "\"", "")]>>
          ELSE <<>>)
         \o OptionPairs(Tail(ops))

\* options.get(key, default): the last assignment to key wins
RECURSIVE DictGet(_, _, _)
DictGet(pairs, key, default) ==
    IF pairs = <<>> THEN default
    ELSE IF pairs[Len(pairs)].key = key THEN pairs[Len(pairs)].val
    ELSE DictGet(SubSeq(pairs, 1, Len(pairs) - 1), key, default)

\* the options dict built from parts[7]
ExtractOptions(options_str) ==
    IF Contains(options_str, "(") /\ Contains(options_str, ")")
    THEN LET inner == SubSeq(options_str, Find(options_str, "(") + 2,
                             RFind(options_str, ")"))
         IN OptionPairs(StripNonEmpty(Split(inner, ";", -1)))
    ELSE <<>>

\* a faulty variant of RawField: the record keeps only the seven header fields
RawFieldHeaderOnly(rule_text, parts) == Join(SubSeq(parts, 1, SplitLimit), " ")

\* "Raw": rule_text  (rule_text is the stripped line)
RawField(rule_text, parts) == rule_text

parse_snort_rule(text) ==
    LET rule_text == Strip(text) IN
    IF rule_text = "" \/ StartsWith(rule_text, "#") THEN None
    ELSE LET parts == Split(rule_text, " ", SplitLimit) IN
         IF Len(parts) < SplitLimit THEN None
         ELSE LET options_str == IF Len(parts) > SplitLimit
                                 THEN parts[SplitLimit + 1] ELSE ""
                  options == ExtractOptions(options_str)
              IN Some([Action |-> parts[1],
                       Proto  |-> parts[2],
                       Src    |-> parts[3] \o ":" \o parts[4],
                       Dir    |-> parts[5],
                       Dst    |-> parts[6] \o ":" \o parts[7],
                       Msg    |-> DictGet(options, "msg", "N/A"),
                       SID    |-> DictGet(options, "sid", "N/A"),
                       Raw    |-> RawField(rule_text, parts)])

(***************************************************************************)
(* External commands: subprocess.run as seen by the operations             *)
(***************************************************************************)
\* What the spawned command does: it exits (rc, stdout, stderr), it does not
\* finish ("hang"), or it cannot be started ("oserror").
Exit(rc, out, err) == [kind |-> "exit", rc |-> rc, stdout |-> out, stderr |-> err]
Hang == [kind |-> "hang", rc |-> 0, stdout |-> "", stderr |-> ""]
OsError == [kind |-> "oserror", rc |-> 0, stdout |-> "", stderr |-> ""]

SuccessBanner == "Snort successfully validated the configuration"

ProcOutcomes == {
    Exit(0, SuccessBanner \o "!\nSnort exiting\n", ""),
    Exit(0, "", ""),
    Exit(0, "11/06-01:00:00 [**] [1:1000001:1] Test [**]\n", "Version 2.9.20\n"),
    Exit(1, "", "ERROR: local.rules(2) INVALID rule option\nFatal Error, Quitting..\n"),
    Exit(1, "", "sudo: a password is required\n"),
    Hang,
    OsError }

\* repr of the argv list, as str(TimeoutExpired) prints it
RECURSIVE Quoted(_)
Quoted(argv) ==
    IF argv = <<>> THEN <<>> ELSE <<"'" \o argv[1] \o "'">> \o Quoted(Tail(argv))

ReprList(argv) == "[" \o Join(Quoted(argv), ", ") \o "]"

\* subprocess.run(argv, capture_output=True, text=True[, timeout=t]) meeting
\* outcome o.  timeout is None or Some(seconds).  Without a timeout a command
\* that does not finish blocks the caller for good.
SubprocessRun(argv, timeout, o) ==
    IF o.kind = "exit"
    THEN [status |-> "completed", exc |-> "", msg |-> "",
          returncode |-> o.rc, stdout |-> o.stdout, stderr |-> o.stderr]
    ELSE IF o.kind = "oserror"
    THEN [status |-> "raised", exc |-> "FileNotFoundError",
          msg |-> "[Errno 2] No such file or directory: '" \o argv[1] \o "'",
          returncode |-> 0, stdout |-> "", stderr |-> ""]
    ELSE IF timeout = None
    THEN [status |-> "blocked", exc |-> "", msg |-> "",
          returncode |-> 0, stdout |-> "", stderr |-> ""]
    ELSE [status |-> "raised", exc |-> "TimeoutExpired",
          msg |-> "Command '" \o ReprList(argv) \o "' timed out after "
                  \o ToString(timeout[1]) \o " seconds",
          returncode |-> 0, stdout |-> "", stderr |-> ""]

\* one entry of the command log
Cmd(argv, timeout, o) == [argv |-> argv, timeout |-> timeout, outcome |-> o]

\* what an operation did: the text it returned, the commands it ran, whether
\* it never returned, and the lines it appended to the rule file
Returned(text, cmds) ==
    [ret |-> text, cmds |-> cmds, blocked |-> FALSE, appended |-> <<>>]
Blocked(cmds) ==
    [ret |-> "", cmds |-> cmds, blocked |-> TRUE, appended |-> <<>>]

Min(a, b) == IF a < b THEN a ELSE b
Max(a, b) == IF a > b THEN a ELSE b

(***************************************************************************)
(* The operations (src/backend/mcp_server.py)                              *)
(***************************************************************************)
MaxPackets == 50
MaxLogLines == 100
VerifyTimeout == 10
SnifferTimeout == 15
TailTimeout == 5
TeeTimeout == 5
OutputTail == 1000

DefaultConfigPath == "/etc/snort/snort.conf"
RulesPath == "/etc/snort/rules/local.rules"
LogDir == "/var/log/snort/"

\* is_snort_installed: shutil.which("snort") is not None
is_snort_installed(snort) ==
    Returned(IF snort THEN "true" ELSE "false", <<>>)

\* get_snort_version passes no timeout to subprocess.run
VersionTimeout == None

get_snort_version(snort, o) ==
    IF ~snort THEN Returned("Error: Snort not found", <<>>)
    ELSE LET argv == <<"sudo", "snort", "-V">>
             r == SubprocessRun(argv, VersionTimeout, o)
             cmds == <<Cmd(argv, VersionTimeout, o)>>
             combined == Strip(r.stdout \o "\n" \o r.stderr)
         IN IF r.status = "blocked" THEN Blocked(cmds)
            ELSE IF r.status = "raised"
            THEN Returned("Error executing snort: " \o r.msg, cmds)
            ELSE IF combined = ""
            THEN Returned("Error: Snort ran but produced NO output.", cmds)
            ELSE Returned(combined, cmds)

verify_config(config_path, snort, o) ==
    IF ~snort THEN Returned("Error: Snort not found", <<>>)
    ELSE LET argv == <<"sudo", "snort", "-T", "-c", config_path>>
             r == SubprocessRun(argv, Some(VerifyTimeout), o)
             cmds == <<Cmd(argv, Some(VerifyTimeout), o)>>
             output == r.stdout \o "\n" \o r.stderr
         IN IF r.status = "raised"
            THEN Returned("Error running verification: " \o r.msg, cmds)
            ELSE IF Contains(output, SuccessBanner)
            THEN Returned("[OK] Configuration is VALID.", cmds)
            ELSE Returned("[X] Configuration Invalid:\n"
                          \o LastChars(output, OutputTail), cmds)

\* count = min(packet_count, 50)
SnifferCount(packet_count) == Min(packet_count, MaxPackets)

run_sniffer(interface, packet_count, snort, o) ==
    IF ~snort THEN Returned("Error: Snort not found", <<>>)
    ELSE LET count == SnifferCount(packet_count)
             argv == <<"sudo", "snort", "-i", interface, "-v", "-n", ToString(count)>>
             r == SubprocessRun(argv, Some(SnifferTimeout), o)
             cmds == <<Cmd(argv, Some(SnifferTimeout), o)>>
             output == r.stdout \o "\n" \o r.stderr
         IN IF r.status = "raised" /\ r.exc = "TimeoutExpired"
            THEN Returned("Error: Sniffer timed out.", cmds)
            ELSE IF r.status = "raised"
            THEN Returned("Error running sniffer: " \o r.msg, cmds)
            ELSE IF Strip(output) # ""
            THEN Returned(output, cmds)
            ELSE Returned("No packets captured (or permission denied).", cmds)

\* log_files
LogTypes == <<"alert", "alert.fast", "log">>
LogFileOf(log_type) ==
    CASE log_type = "alert" -> "snort.alert"
      [] log_type = "alert.fast" -> "snort.alert.fast"
      [] log_type = "log" -> "snort.log"

\* lines = min(max(1, lines), 100)
TailLines(lines) == Min(Max(1, lines), MaxLogLines)

read_snort_logs(log_type, lines, exists, o) ==
    IF log_type \notin {LogTypes[i] : i \in 1..Len(LogTypes)}
    THEN Returned("Error: Invalid log_type. Available types: "
                  \o Join(LogTypes, ", "), <<>>)
    ELSE LET file_path == LogDir \o LogFileOf(log_type) IN
         IF ~exists
         THEN Returned("Error: Log file " \o file_path \o " not found.", <<>>)
         ELSE LET n == TailLines(lines)
                  argv == <<"tail", "-n", ToString(n), file_path>>
                  r == SubprocessRun(argv, Some(TailTimeout), o)
                  cmds == <<Cmd(argv, Some(TailTimeout), o)>>
                  output == Strip(r.stdout)
              IN IF r.status = "raised"
                 THEN Returned("Error executing tail: " \o r.msg, cmds)
                 ELSE IF r.returncode # 0
                 THEN Returned("Error reading log: " \o r.stderr, cmds)
                 ELSE IF output = ""
                 THEN Returned("No entries found in " \o LogFileOf(log_type)
                               \o ".", cmds)
                 ELSE Returned("--- Latest " \o ToString(n) \o " lines from "
                               \o LogFileOf(log_type) \o " ---\n" \o output, cmds)

\* json.dumps of a str (the escapes of the characters the model uses)
JsonStr(s) ==
    "\"" \o Replace(Replace(Replace(Replace(s, "\\", "\\\\"), "\"", "\\\""),
                            "\n", "\\n"), "\t", "\\t") \o "\""

\* json.dumps of one record returned by parse_snort_rule
JsonRule(r) ==
    "{" \o Join(<<JsonStr("Action") \o ": " \o JsonStr(r.Action),
                  JsonStr("Proto") \o ": " \o JsonStr(r.Proto),
                  JsonStr("Src") \o ": " \o JsonStr(r.Src),
                  JsonStr("Dir") \o ": " \o JsonStr(r.Dir),
                  JsonStr("Dst") \o ": " \o JsonStr(r.Dst),
                  JsonStr("Msg") \o ": " \o JsonStr(r.Msg),
                  JsonStr("SID") \o ": " \o JsonStr(r.SID),
                  JsonStr("Raw") \o ": " \o JsonStr(r.Raw)>>, ", ") \o "}"

\* the for loop over the file: the records of the lines that parse
RECURSIVE ParsedRules(_)
ParsedRules(lines) ==
    IF lines = <<>> THEN <<>>
    ELSE LET parsedLine == parse_snort_rule(lines[1]) IN
         (IF parsedLine # None THEN <<JsonRule(parsedLine[1])>> ELSE <<>>)
         \o ParsedRules(Tail(lines))

JsonError(msg) == "{" \o JsonStr("error") \o ": " \o JsonStr(msg) \o "}"

\* list_snort_rules: file is the rule file's lines, readable whether open() works
list_snort_rules(exists, readable, file) ==
    IF ~exists
    THEN Returned(JsonError("Rules file " \o RulesPath \o " not found."), <<>>)
    ELSE IF ~readable
    THEN Returned(JsonError("[Errno 13] Permission denied: '" \o RulesPath \o "'"),
                  <<>>)
    ELSE Returned("[" \o Join(ParsedRules(file), ", ") \o "]", <<>>)

ActionKeywords ==
    <<"alert", "log", "pass", "activate", "dynamic", "drop", "reject", "sdrop">>

\* str.startswith(tuple)
StartsWithAny(s, prefixes) ==
    \E i \in 1..Len(prefixes) : StartsWith(s, prefixes[i])

\* the lines "\n{rule.strip()}\n" adds to a file that ends with a newline
AppendedLines(rule) == Split("\n" \o Strip(rule), "\n", -1)

\* add_snort_rule: o1 is what tee does, o2 what snort -T does
add_snort_rule(rule, snort, o1, o2) ==
    IF ~StartsWithAny(Strip(rule), ActionKeywords)
    THEN Returned("Error: Rule must start with a valid Snort action (alert, log, etc.)",
                  <<>>)
    ELSE LET argv == <<"sudo", "tee", "-a", RulesPath>>
             r == SubprocessRun(argv, Some(TeeTimeout), o1)
             tee == <<Cmd(argv, Some(TeeTimeout), o1)>>
         IN IF r.status = "raised"
            THEN Returned("Error adding rule: " \o r.msg, tee)
            ELSE IF r.returncode # 0
            THEN Returned("Error adding rule (sudo): " \o r.stderr, tee)
            ELSE LET v == verify_config(DefaultConfigPath, snort, o2)
                     verification_result == v.ret
                 IN [ret |-> IF Contains(verification_result, "VALID")
                             THEN "[OK] Rule added and verified successfully:\n"
                                  \o rule
                             ELSE "[!] Rule added but Snort configuration is now INVALID:\n"
                                  \o verification_result
                                  \o "\n\nPlease check and fix the rule manually.",
                     cmds |-> tee \o v.cmds,
                     blocked |-> FALSE,
                     appended |-> AppendedLines(rule)]

(***************************************************************************)
(* The operation host: the tools registered with @mcp.tool()               *)
(***************************************************************************)
ToolNames == <<"is_snort_installed", "get_snort_version", "verify_config",
               "run_sniffer", "read_snort_logs", "list_snort_rules",
               "add_snort_rule">>

ToolNameSet == {ToolNames[i] : i \in 1..Len(ToolNames)}

\* the parameters' defaults, for the arguments a call leaves out
DefaultArgs ==
    [config_path |-> DefaultConfigPath, interface |-> "eth0", packet_count |-> 10,
     log_type |-> "alert.fast", lines |-> 20, rule |-> ""]

\* The machine the host runs on, for one call: whether snort is on the PATH,
\* whether the file the call reads exists and opens, and what the (up to two)
\* commands it spawns do.
Env(snort, exists, readable, o1, o2) ==
    [snort |-> snort, exists |-> exists, readable |-> readable,
     o1 |-> o1, o2 |-> o2]

\* a faulty variant of CallTool: an unknown name falls back to the nearest tool
CallToolBestEffort(name, args, env, file) ==
    IF name = "is_snort_installed" THEN is_snort_installed(env.snort)
    ELSE IF name = "verify_config"
    THEN verify_config(args.config_path, env.snort, env.o1)
    ELSE IF name = "run_sniffer"
    THEN run_sniffer(args.interface, args.packet_count, env.snort, env.o1)
    ELSE IF name = "read_snort_logs"
    THEN read_snort_logs(args.log_type, args.lines, env.exists, env.o1)
    ELSE IF name = "list_snort_rules"
    THEN list_snort_rules(env.exists, env.readable, file)
    ELSE IF name = "add_snort_rule"
    THEN add_snort_rule(args.rule, env.snort, env.o1, env.o2)
    ELSE get_snort_version(env.snort, env.o1)

\* session.call_tool(name, arguments) as the host serves it: the registered
\* function of that name runs; a name that is not registered runs nothing and
\* is answered with an error text
CallTool(name, args, env, file) ==
    IF name = "is_snort_installed" THEN is_snort_installed(env.snort)
    ELSE IF name = "get_snort_version" THEN get_snort_version(env.snort, env.o1)
    ELSE IF name = "verify_config"
    THEN verify_config(args.config_path, env.snort, env.o1)
    ELSE IF name = "run_sniffer"
    THEN run_sniffer(args.interface, args.packet_count, env.snort, env.o1)
    ELSE IF name = "read_snort_logs"
    THEN read_snort_logs(args.log_type, args.lines, env.exists, env.o1)
    ELSE IF name = "list_snort_rules"
    THEN list_snort_rules(env.exists, env.readable, file)
    ELSE IF name = "add_snort_rule"
    THEN add_snort_rule(args.rule, env.snort, env.o1, env.o2)
    ELSE Returned("Unknown tool: " \o name, <<>>)

(***************************************************************************)
(* The decision engine (src/backend/llm_service.py)                        *)
(***************************************************************************)
\* A value json.loads can return.  A dict carries the keys it has and the
\* values of the four keys the dispatch loop reads.
JsonValue(kind, keys, type, content, name, arguments) ==
    [kind |-> kind, keys |-> keys, type |-> type, content |-> content,
     name |-> name, arguments |-> arguments]

JsonDict(keys, type, content, name, arguments) ==
    JsonValue("dict", keys, type, content, name, arguments)
JsonList == JsonValue("list", {}, "", "", "", DefaultArgs)
NoResponse == JsonValue("none", {}, "", "", "", DefaultArgs)

\* the dicts get_agent_response builds itself
Message(content) ==
    JsonDict({"type", "content"}, "message", content, "", DefaultArgs)
ToolCall(name, arguments) ==
    JsonDict({"type", "name", "arguments"}, "tool_call", "", name, arguments)

\* The texts the model is taken to produce, and what json.loads makes of each
TextHello == "{\"type\":\"message\",\"content\":\"hello\"}"
TextVersion ==
    "{\"type\":\"tool_call\",\"name\":\"get_snort_version\",\"arguments\":{}}"
TextUnknownTool ==
    "{\"type\":\"tool_call\",\"name\":\"nmap_scan\",\"arguments\":{}}"
TextNoArguments == "{\"type\":\"tool_call\",\"name\":\"get_snort_version\"}"
TextOtherType == "{\"type\":\"plan\",\"steps\":[]}"
TextNoType == "{\"answer\":\"hello\"}"
TextList == "[1, 2]"
TextProse == "I can check the Snort version for you."

\* json.loads: the value of a JSON text, or no value (JSONDecodeError)
JsonLoads(text) ==
    CASE text = TextHello -> Some(Message("hello"))
      [] text = TextVersion -> Some(ToolCall("get_snort_version", DefaultArgs))
      [] text = TextUnknownTool -> Some(ToolCall("nmap_scan", DefaultArgs))
      [] text = TextNoArguments ->
            Some(JsonDict({"type", "name"}, "tool_call", "", "get_snort_version",
                          DefaultArgs))
      [] text = TextOtherType -> Some(JsonDict({"type", "steps"}, "plan", "", "",
                                               DefaultArgs))
      [] text = TextNoType -> Some(JsonDict({"answer"}, "", "", "", DefaultArgs))
      [] text = TextList -> Some(JsonList)
      [] OTHER -> None

Fence == "~~~"

\* What the model call does: it raises, or it returns a completion whose
\* message content is the given text.
Raises(msg) == [kind |-> "raise", text |-> msg]
Completes(text) == [kind |-> "content", text |-> text]

ModelOutcomes == {
    Completes(TextHello),
    Completes("  " \o TextHello \o "\n"),
    Completes(Fence \o "json\n" \o TextVersion \o "\n" \o Fence),
    Completes(Fence \o "\n" \o TextHello \o "\n" \o Fence),
    Completes(TextVersion),
    Completes(TextUnknownTool),
    Completes(TextNoArguments),
    Completes(TextOtherType),
    Completes(TextNoType),
    Completes(TextList),
    Completes(TextProse),
    Raises("Connection error.") }

\* the clean-up of markdown code blocks before json.loads
StripFence(content) ==
    IF StartsWith(content, Fence \o "json")
    THEN Strip(Replace(Replace(content, Fence \o "json", ""), Fence, ""))
    ELSE IF StartsWith(content, Fence)
    THEN Strip(Replace(content, Fence, ""))
    ELSE content

\* get_agent_response(query, tools) when the model call ends as outcome.
\* The names json, Groq, List, Dict and Any are taken to be bound (the file as
\* given does not import them).
get_agent_response(q, catalog, outcome) ==
    IF outcome.kind = "raise"
    THEN Message("LLM Error: " \o outcome.text)
    ELSE LET content == StripFence(Strip(outcome.text))
             response_json == JsonLoads(content)
         IN IF response_json = None
            THEN Message("Error parsing model response. Raw: " \o content)
            ELSE response_json[1]

(***************************************************************************)
(* The parts of the state a specification does not exercise                *)
(***************************************************************************)
InitHostIdle ==
    /\ opName = "" /\ opArgs = DefaultArgs /\ opResult = "" /\ opPc = "ready"
    /\ cmdLog = <<>> /\ rulesFile = <<>>

InitAppIdle ==
    /\ pc = "Idle" /\ query = "" /\ tools = <<>> /\ fetchFailed = FALSE
    /\ response = NoResponse /\ tool_output = "" /\ rendered = ""
    /\ history = <<>>
    /\ fetchCalls = 0 /\ llmCalls = 0 /\ llmTools = <<>> /\ execCalls = 0

InitParseIdle ==
    line = "" /\ parsed = None /\ reparsed = None /\ parsePc = "input"

(***************************************************************************)
(* Specification SpecOps: the operations called with bounded arguments     *)
(***************************************************************************)
MaxAppends == 2

PacketCounts == {-5, 0, 1, 10, 50, 51, 1000}
LineCounts == {-3, 0, 1, 20, 100, 101, 500}
Interfaces == {"eth0", "lo"}
LogTypeArgs == {"alert", "alert.fast", "log", "syslog"}
ConfigPaths == {DefaultConfigPath, "/tmp/snort.conf"}
RuleArgs == {
    "alert tcp any any -> any any (msg:\"Test\"; sid:1000001;)",
    "  drop udp any any -> any 53 (sid:2;)\n",
    "alertx tcp any any -> any any (sid:3;)",
    "logger started",
    "block tcp any any -> any any (sid:4;)",
    "# alert tcp any any -> any any (sid:5;)",
    "ALERT tcp any any -> any any (sid:6;)",
    "" }
InitialRuleFiles == {
    <<>>,
    <<"# local rules",
      "alert icmp any any -> any any (msg:\"ping\"; sid:1000000;)">> }

InitOps ==
    /\ opName = "" /\ opArgs = DefaultArgs /\ opResult = "" /\ opPc = "ready"
    /\ cmdLog = <<>>
    /\ rulesFile \in InitialRuleFiles
    /\ InitAppIdle /\ InitParseIdle

\* the host serves one call: name(args) on a machine behaving as env
Serve(name, args, env) ==
    LET res == CallTool(name, args, env, rulesFile) IN
    /\ opPc = "ready"
    /\ opName' = name
    /\ opArgs' = args
    /\ opResult' = res.ret
    /\ opPc' = IF res.blocked THEN "blocked" ELSE "returned"
    /\ cmdLog' = res.cmds
    /\ rulesFile' = rulesFile \o res.appended
    /\ UNCHANGED <<appVars, parseVars>>

Call_is_snort_installed ==
    \E snort \in BOOLEAN :
        Serve("is_snort_installed", DefaultArgs, Env(snort, TRUE, TRUE, Hang, Hang))

Call_get_snort_version ==
    \E snort \in BOOLEAN, o \in ProcOutcomes :
        Serve("get_snort_version", DefaultArgs, Env(snort, TRUE, TRUE, o, Hang))

Call_verify_config ==
    \E snort \in BOOLEAN, o \in ProcOutcomes, p \in ConfigPaths :
        Serve("verify_config", [DefaultArgs EXCEPT !.config_path = p],
              Env(snort, TRUE, TRUE, o, Hang))

Call_run_sniffer ==
    \E snort \in BOOLEAN, o \in ProcOutcomes, i \in Interfaces, n \in PacketCounts :
        Serve("run_sniffer",
              [DefaultArgs EXCEPT !.interface = i, !.packet_count = n],
              Env(snort, TRUE, TRUE, o, Hang))

Call_read_snort_logs ==
    \E exists \in BOOLEAN, o \in ProcOutcomes, t \in LogTypeArgs, n \in LineCounts :
        Serve("read_snort_logs",
              [DefaultArgs EXCEPT !.log_type = t, !.lines = n],
              Env(TRUE, exists, TRUE, o, Hang))

Call_list_snort_rules ==
    \E exists \in BOOLEAN, readable \in BOOLEAN :
        Serve("list_snort_rules", DefaultArgs, Env(TRUE, exists, readable, Hang, Hang))

Call_add_snort_rule ==
    /\ Len(rulesFile) < 2 * MaxAppends
    /\ \E snort \in BOOLEAN, o1 \in ProcOutcomes, o2 \in ProcOutcomes, r \in RuleArgs :
        Serve("add_snort_rule", [DefaultArgs EXCEPT !.rule = r],
              Env(snort, TRUE, TRUE, o1, o2))

\* every call is served by a fresh host process (stdio_client spawns one)
StartHost ==
    /\ opPc = "returned"
    /\ opPc' = "ready"
    /\ opName' = "" /\ opArgs' = DefaultArgs /\ opResult' = "" /\ cmdLog' = <<>>
    /\ UNCHANGED <<rulesFile, appVars, parseVars>>

NextOps ==
    \/ Call_is_snort_installed
    \/ Call_get_snort_version
    \/ Call_verify_config
    \/ Call_run_sniffer
    \/ Call_read_snort_logs
    \/ Call_list_snort_rules
    \/ Call_add_snort_rule
    \/ StartHost

SpecOps == InitOps /\ [][NextOps]_vars

(***************************************************************************)
(* Properties of the operations (checked under SpecOps)                    *)
(***************************************************************************)
\* the decimal texts of the integers lo..hi, as str() writes them
Decimals(lo, hi) == {ToString(n) : n \in lo..hi}

\* C4: whatever integer is requested, run_sniffer passes a packet count within
\* [1,50] to snort (-n) and read_snort_logs a line count within [1,100] to
\* tail (-n).
C4_CountsClamped ==
    \A i \in 1..Len(cmdLog) :
        /\ (opName = "run_sniffer" =>
                cmdLog[i].argv[7] \in Decimals(1, MaxPackets))
        /\ (opName = "read_snort_logs" =>
                cmdLog[i].argv[3] \in Decimals(1, MaxLogLines))

\* C5: every external command an operation runs is run under a timeout, no
\* operation is left blocked, and an operation whose command did not finish
\* returns a text saying it timed out.
C5_EveryCommandBounded ==
    /\ opPc # "blocked"
    /\ \A i \in 1..Len(cmdLog) :
        /\ cmdLog[i].timeout # None
        /\ (cmdLog[i].outcome.kind = "hang" => Contains(opResult, "timed out"))

\* rule.split()[0]: the first whitespace-delimited token ("" when there is none)
FirstToken(s) ==
    LET t == Strip(s)
        gaps == {i \in 1..Len(t) : SubSeq(t, i, i) \in Whitespace}
    IN IF gaps = {} THEN t
       ELSE SubSeq(t, 1, (CHOOSE i \in gaps : \A j \in gaps : i <= j) - 1)

ActionKeywordSet == {ActionKeywords[i] : i \in 1..Len(ActionKeywords)}

\* C7: a call of add_snort_rule with a rule whose first token is not an action
\* keyword returns the error, runs no external command and leaves the rule
\* file as it was.
C7_Step ==
    (/\ opPc = "ready" /\ opPc' # "ready"
     /\ opName' = "add_snort_rule"
     /\ FirstToken(opArgs'.rule) \notin ActionKeywordSet)
    => /\ StartsWith(opResult', "Error: Rule must start with a valid Snort action")
       /\ cmdLog' = <<>>
       /\ rulesFile' = rulesFile

C7_NonKeywordRejected == [][C7_Step]_vars

\* the combined output of the command logged at position i
CombinedOutput(i) == cmdLog[i].outcome.stdout \o "\n" \o cmdLog[i].outcome.stderr

\* C8: for a rule that passes the keyword check, add_snort_rule runs the append
\* exactly once and first, runs the verification only after an append that
\* succeeded, and reports "added and verified" if and only if the
\* verification's combined output held the success substring.
C8_AppendThenVerify ==
    (/\ opName = "add_snort_rule" /\ opPc = "returned"
     /\ StartsWithAny(Strip(opArgs.rule), ActionKeywords))
    => /\ Len(cmdLog) >= 1
       /\ cmdLog[1].argv = <<"sudo", "tee", "-a", RulesPath>>
       /\ \A i \in 2..Len(cmdLog) :
            /\ i = 2
            /\ cmdLog[i].argv = <<"sudo", "snort", "-T", "-c", DefaultConfigPath>>
            /\ cmdLog[1].outcome.kind = "exit" /\ cmdLog[1].outcome.rc = 0
       /\ (StartsWith(opResult, "[OK] Rule added and verified successfully")
            <=> /\ Len(cmdLog) = 2
                /\ cmdLog[2].outcome.kind = "exit"
                /\ Contains(CombinedOutput(2), SuccessBanner))

(***************************************************************************)
(* Specification Spec: the dispatch loop (src/app.py)                      *)
(***************************************************************************)
MaxHistory == 2

Queries == {"check snort version", "hello"}

\* the machines the host is taken to run on when the loop invokes it
DispatchEnvs == {
    Env(TRUE, TRUE, TRUE, Exit(0, "", "Version 2.9.20\n"), Hang),
    Env(FALSE, TRUE, TRUE, Hang, Hang),
    Env(TRUE, TRUE, TRUE, Hang, Hang) }

\* the sidebar: tools = run_sync(agent.list_tools()), or [] when that raises
SidebarTools(ok) == IF ok THEN ToolNames ELSE <<>>

\* a faulty variant of AfterSidebar: a failed catalog fetch ends the script run
AfterSidebarAbort(ok, q) == IF q # "" /\ ok THEN "Deciding" ELSE "Idle"

\* where the script goes after the sidebar: into "if query:" when there is one
AfterSidebar(ok, q) == IF q # "" THEN "Deciding" ELSE "Idle"

\* which branch of the script a value returned by get_agent_response takes:
\* response["type"] raises on a non-dict (TypeError) and on a dict without the
\* key (KeyError), as do response["content"], ["name"] and ["arguments"];
\* a type that is neither "message" nor "tool_call" runs neither branch
DispatchBranch(r) ==
    IF r.kind # "dict" \/ "type" \notin r.keys THEN "fault"
    ELSE IF r.type = "message"
    THEN (IF "content" \in r.keys THEN "respond" ELSE "fault")
    ELSE IF r.type = "tool_call"
    THEN (IF {"name", "arguments"} \subseteq r.keys THEN "invoke" ELSE "fault")
    ELSE "skip"

\* a faulty variant of ExecAttempts: a failed invocation is tried once more
ExecAttemptsRetry(reachable) == IF reachable THEN 1 ELSE 2

\* execute_tool calls made by the try/except of step 2
ExecAttempts(reachable) == 1

\* a faulty variant of AppendHistory: the entry is put first
AppendHistoryFront(h, entry) == <<entry>> \o h

\* st.session_state.history.append(entry)
AppendHistory(h, entry) == Append(h, entry)

\* the display chosen for a tool result: json.loads of the host's texts gives a
\* list for the rule listing, a dict with "error" for its failures, a bool for
\* the install check, and fails (raw text) on the rest
RenderKind(text) ==
    IF StartsWith(text, "[{") THEN "table"
    ELSE IF StartsWith(text, "{\"error\"") THEN "error"
    ELSE IF text \in {"[]", "true", "false"} THEN "json"
    ELSE "raw"

Init == InitAppIdle /\ InitHostIdle /\ InitParseIdle

\* a script run: the sidebar fetches the catalog, then "if query:" is entered
RunScript(q, ok) ==
    /\ pc \in {"Idle", "Faulted"}
    /\ query' = q
    /\ fetchCalls' = 1
    /\ tools' = SidebarTools(ok)
    /\ fetchFailed' = ~ok
    /\ response' = NoResponse /\ tool_output' = "" /\ rendered' = ""
    /\ llmCalls' = 0 /\ llmTools' = <<>> /\ execCalls' = 0
    /\ opName' = "" /\ opArgs' = DefaultArgs /\ opResult' = "" /\ opPc' = "ready"
    /\ cmdLog' = <<>>
    /\ pc' = AfterSidebar(ok, q)
    /\ UNCHANGED <<history, rulesFile, parseVars>>

\* the user submits a query
SubmitQuery ==
    /\ Len(history) < MaxHistory
    /\ \E q \in Queries, ok \in BOOLEAN : RunScript(q, ok)

\* the script reruns with no query submitted (chat_input returns None)
RerunNoQuery ==
    \E ok \in BOOLEAN : RunScript("", ok)

\* Step 1: response = llm_service.get_agent_response(query, tools)
Decide ==
    /\ pc = "Deciding"
    /\ \E o \in ModelOutcomes : response' = get_agent_response(query, tools, o)
    /\ llmCalls' = llmCalls + 1
    /\ llmTools' = tools
    /\ pc' = "Decided"
    /\ UNCHANGED <<query, tools, fetchFailed, tool_output, rendered, history,
                   fetchCalls, execCalls, hostVars, parseVars>>

\* response["type"] == "message": show the content, append to the history
Respond ==
    /\ pc = "Decided"
    /\ DispatchBranch(response) = "respond"
    /\ history' = AppendHistory(history,
                                [query |-> query, response |-> response.content])
    /\ pc' = "Idle"
    /\ UNCHANGED <<query, tools, fetchFailed, response, tool_output, rendered,
                   fetchCalls, llmCalls, llmTools, execCalls, hostVars, parseVars>>

\* a subscript of the response raises: the script run ends with the exception
Fault ==
    /\ pc = "Decided"
    /\ DispatchBranch(response) = "fault"
    /\ pc' = "Faulted"
    /\ UNCHANGED <<query, tools, fetchFailed, response, tool_output, rendered,
                   history, fetchCalls, llmCalls, llmTools, execCalls, hostVars,
                   parseVars>>

\* neither branch of the if/elif runs: the script run ends
SkipBranches ==
    /\ pc = "Decided"
    /\ DispatchBranch(response) = "skip"
    /\ pc' = "Idle"
    /\ UNCHANGED <<query, tools, fetchFailed, response, tool_output, rendered,
                   history, fetchCalls, llmCalls, llmTools, execCalls, hostVars,
                   parseVars>>

\* Step 2, the host cannot be reached: execute_tool raises, the except branch
\* binds the error text
ExecuteToolFails ==
    /\ pc = "Decided"
    /\ DispatchBranch(response) = "invoke"
    /\ execCalls' = execCalls + ExecAttempts(FALSE)
    /\ tool_output' = "Error executing tool: Connection closed"
    /\ pc' = "Rendering"
    /\ UNCHANGED <<query, tools, fetchFailed, response, rendered, history,
                   fetchCalls, llmCalls, llmTools, hostVars, parseVars>>

\* Step 2: tool_output = run_sync(agent.execute_tool(tool_name, tool_args)),
\* served by the host on a machine behaving as env
ExecuteTool ==
    /\ pc = "Decided"
    /\ DispatchBranch(response) = "invoke"
    /\ \E env \in DispatchEnvs :
         LET res == CallTool(response.name, response.arguments, env, rulesFile) IN
         /\ opName' = response.name
         /\ opArgs' = response.arguments
         /\ opResult' = res.ret
         /\ opPc' = IF res.blocked THEN "blocked" ELSE "returned"
         /\ cmdLog' = res.cmds
         /\ rulesFile' = rulesFile \o res.appended
         /\ tool_output' = IF res.blocked THEN tool_output ELSE res.ret
         /\ pc' = IF res.blocked THEN "Blocked" ELSE "Rendering"
    /\ execCalls' = execCalls + ExecAttempts(TRUE)
    /\ UNCHANGED <<query, tools, fetchFailed, response, rendered, history,
                   fetchCalls, llmCalls, llmTools, parseVars>>

\* the result is shown and the history entry appended
Render ==
    /\ pc = "Rendering"
    /\ rendered' = RenderKind(tool_output)
    /\ history' = AppendHistory(history,
                                [query |-> query, tool |-> response.name,
                                 output |-> tool_output])
    /\ pc' = "Idle"
    /\ UNCHANGED <<query, tools, fetchFailed, response, tool_output,
                   fetchCalls, llmCalls, llmTools, execCalls, hostVars, parseVars>>

Next ==
    \/ SubmitQuery
    \/ RerunNoQuery
    \/ Decide
    \/ Respond
    \/ Fault
    \/ SkipBranches
    \/ ExecuteToolFails
    \/ ExecuteTool
    \/ Render

Spec == Init /\ [][Next]_vars

(***************************************************************************)
(* Properties of the dispatch loop (checked under Spec)                    *)
(***************************************************************************)
\* The two shapes of a Decision (get_agent_response's docstring)
IsAnswer(r) ==
    r.kind = "dict" /\ {"type", "content"} \subseteq r.keys /\ r.type = "message"
IsInvoke(r) ==
    /\ r.kind = "dict" /\ {"type", "name", "arguments"} \subseteq r.keys
    /\ r.type = "tool_call"

\* C1: within one request the operation host is invoked at most once (a
\* failed invocation is not retried), and for a Decision that is an Answer
\* (type "message") it is not invoked at all.
C1_AtMostOneInvocation ==
    /\ execCalls <= 1
    /\ (IsAnswer(response) => execCalls = 0)
    /\ (pc \in {"Rendering", "Blocked"} => execCalls = 1)

\* an invocation failed and the loop went on to render with exactly one call made
C1_Witness ==
    /\ pc = "Rendering"
    /\ IsInvoke(response)
    /\ execCalls = 1
    /\ StartsWith(tool_output, "Error executing tool: ")

\* C2 as claimed: when the catalog fetch fails the request is aborted before
\* any Decision: the language model is not called and no operation is invoked.
C2_AbortsBeforeDecision ==
    fetchFailed => (fetchCalls = 1 /\ llmCalls = 0 /\ execCalls = 0)

\* C2 as amended: when the catalog fetch fails the error is shown, the fetch is
\* not retried and the catalog is taken to be empty, but the request is not
\* aborted: the language model is called once, with the empty catalog, and
\* its Decision is dispatched as usual (at most one invocation).
C2_FetchFailureContinues ==
    fetchFailed =>
        /\ fetchCalls = 1
        /\ tools = <<>>
        /\ llmCalls <= 1 /\ execCalls <= 1
        /\ (llmCalls = 1 => llmTools = <<>>)
        /\ (query # "" /\ pc # "Deciding" => llmCalls = 1)

\* after a failed fetch a request ran to its end with the model consulted
C2_Witness ==
    /\ fetchFailed /\ query # ""
    /\ pc = "Idle"
    /\ llmCalls = 1 /\ llmTools = <<>>
    /\ history # <<>>

\* C3: whatever the model call does, get_agent_response returns a Decision
\* (an Answer or an Invoke), so the dispatch loop reaches Responding or
\* Invoking and never ends in an unhandled fault.
C3_AlwaysADecision ==
    /\ pc # "Faulted"
    /\ (llmCalls = 1 => IsAnswer(response) \/ IsInvoke(response))

AnswerEntry == [query |-> query, response |-> response.content]
InvokeEntry == [query |-> query, tool |-> response.name, output |-> tool_output]

\* C9: the history is an append-only log.  The step that completes a request
\* with an Answer appends the query and the response text; the step that
\* completes one with an Invoke appends the query, the operation name and the
\* output text, also when the invocation failed; every other step leaves the
\* history as it is, so entries stay in request order and are never changed
\* or removed.
C9_HistoryStep ==
    IF pc = "Decided" /\ IsAnswer(response) /\ pc' # pc
    THEN history' = Append(history, AnswerEntry)
    ELSE IF pc = "Rendering" /\ IsInvoke(response) /\ pc' # pc
    THEN history' = Append(history, InvokeEntry)
    ELSE history' = history

C9_AppendOnlyHistory == [][C9_HistoryStep]_vars

\* a failed invocation's entry is followed by a later request's Answer entry
C9_Witness ==
    /\ Len(history) = 2
    /\ DOMAIN history[1] = {"query", "tool", "output"}
    /\ StartsWith(history[1].output, "Error executing tool: ")
    /\ DOMAIN history[2] = {"query", "response"}
    /\ history[2].query # history[1].query
    /\ pc = "Idle"

(***************************************************************************)
(* Specification SpecParse: parse_snort_rule applied to bounded lines      *)
(***************************************************************************)
LeadSpace == {"", " ", "\t "}
TrailSpace == {"", " ", "\n"}
Headers == {
    "alert tcp any any -> any any",
    "alert  tcp any any -> any any",
    "alert\ttcp any any -> any any",
    "log udp 10.0.0.1 53 <> $HOME_NET 80",
    "alert tcp any any -> any",
    "#alert tcp any any -> any any",
    "# comment",
    "drop",
    "" }
OptionBlobs == {
    "",
    " (msg:\"Test\"; sid:1000001;)",
    " (sid:1; msg:\"a:b\"; rev:2; sid: 2 )",
    "  (msg: \"x y\" ;nocolon; )",
    " )msg:\"x\"(",
    " (msg:\"a) (b\";)",
    " msg:x" }
RuleLines == { l \o h \o o \o t :
                 l \in LeadSpace, h \in Headers, o \in OptionBlobs, t \in TrailSpace }

InitParse ==
    /\ line \in RuleLines
    /\ parsed = None /\ reparsed = None /\ parsePc = "input"
    /\ InitAppIdle /\ InitHostIdle

\* parsed = parse_snort_rule(line)
ParseLine ==
    /\ parsePc = "input"
    /\ parsed' = parse_snort_rule(line)
    /\ parsePc' = "parsed"
    /\ UNCHANGED <<line, reparsed, appVars, hostVars>>

\* reparsed = parse_snort_rule(parsed["Raw"]), for a line that parsed to a record
ReparseRaw ==
    /\ parsePc = "parsed"
    /\ parsed # None
    /\ reparsed' = parse_snort_rule(parsed[1].Raw)
    /\ parsePc' = "reparsed"
    /\ UNCHANGED <<line, parsed, appVars, hostVars>>

NextParse == ParseLine \/ ReparseRaw

SpecParse == InitParse /\ [][NextParse]_vars

\* C10: parse_snort_rule is idempotent on well-formed input: for every line
\* that parses to a record, parsing the record's Raw text again yields a
\* record equal to the first in every field.
C10_ReparseIdentical ==
    parsePc = "reparsed" => reparsed = parsed

\* a line with surrounding whitespace and an options blob was parsed to a
\* record and its Raw (which differs from the line) was parsed again
C10_Witness ==
    /\ parsePc = "reparsed"
    /\ parsed # None
    /\ parsed[1].Raw # line
    /\ parsed[1].Msg # "N/A"
    /\ reparsed # None

\* str.lstrip()
LStrip(s) ==
    LET ink == Inked(s) IN
    IF ink = {} THEN ""
    ELSE SubSeq(s, CHOOSE i \in ink : \A j \in ink : i <= j, Len(s))

\* The whitespace-delimited fields of s, any run of whitespace being one
\* delimiter: the first maxsplit fields, then the rest of the text unsplit.
RECURSIVE WhitespaceFields(_, _)
WhitespaceFields(s, maxsplit) ==
    LET t == LStrip(s)
        gaps == {i \in 1..Len(t) : SubSeq(t, i, i) \in Whitespace}
    IN IF t = "" THEN <<>>
       ELSE IF maxsplit = 0 \/ gaps = {} THEN <<t>>
       ELSE LET g == CHOOSE i \in gaps : \A j \in gaps : i <= j IN
            <<SubSeq(t, 1, g - 1)>>
            \o WhitespaceFields(SubSeq(t, g + 1, Len(t)), maxsplit - 1)

\* C11: a blank line or a line whose first non-whitespace character is # gives
\* None; any other line is split into whitespace-delimited fields (any run of
\* whitespace is one delimiter): fewer than 7 fields give None, and 7 or more
\* give a record whose Action, Proto, Src, Dir and Dst are the first seven
\* fields in order (Src and Dst as address:port), everything after the 7th
\* field being the options blob from which Msg and SID are read.
C11_WhitespaceFields ==
    parsePc # "input" =>
        LET t == Strip(line)
            f == WhitespaceFields(t, SplitLimit)
        IN IF t = "" \/ StartsWith(t, "#") THEN parsed = None
           ELSE IF Len(f) < SplitLimit THEN parsed = None
           ELSE /\ parsed # None
                /\ parsed[1].Action = f[1]
                /\ parsed[1].Proto = f[2]
                /\ parsed[1].Src = f[3] \o ":" \o f[4]
                /\ parsed[1].Dir = f[5]
                /\ parsed[1].Dst = f[6] \o ":" \o f[7]
                /\ LET blob == IF Len(f) > SplitLimit THEN f[SplitLimit + 1] ELSE ""
                   IN /\ parsed[1].Msg = DictGet(ExtractOptions(blob), "msg", "N/A")
                      /\ parsed[1].SID = DictGet(ExtractOptions(blob), "sid", "N/A")

\* the same, for the lines whose fields are separated by single spaces only
C11_SingleSpaced ==
    (~Contains(Strip(line), "  ") /\ ~Contains(Strip(line), "\t")
     /\ ~Contains(Strip(line), "\n"))
    => C11_WhitespaceFields

====
